---- MODULE Spec2Model ----
(***************************************************************************)
(* Two notebooks of elasticsearch-labs, each a linear script of cells:     *)
(*   - notebooks/integrations/cohere/inference-cohere.ipynb  ("cohere")    *)
(*   - the Gemma RAG notebook (src/unnamed/part_000)          ("gemma")    *)
(* A run executes the code cells top to bottom.  Every call that leaves    *)
(* the notebook (Elasticsearch, urlopen, Hugging Face) either returns or   *)
(* raises; nothing in the notebooks catches an exception.  The managed     *)
(* services are modelled by the resources they hold (inference endpoints,  *)
(* ingest pipelines, one index).  The pip/import cells hold no state and   *)
(* are not modelled.                                                       *)
(***************************************************************************)
EXTENDS Integers, Sequences, FiniteSets, TLC

VARIABLES
    notebook,          \* which notebook this run executes
    pc,                \* the step about to run, "done" or "failed"
    calls,             \* the external calls issued so far, in order
    failedAt,          \* the step whose call raised, or NoValue
    stdout,            \* what the cells printed
    ELASTIC_CLOUD_ID,  \* notebook globals
    ELASTIC_API_KEY,
    API_KEY,
    client,
    data_json,
    documents,
    response,
    workplace_docs,
    content,
    metadata,
    docs,
    chunkParent,       \* history: index of the text each element of docs was cut from
    es,
    objects,           \* the opaque globals built so far (model, tokenizer, pipe, ...)
    context,           \* the text format_docs returned
    endpoints,         \* the cluster: inference endpoints
    pipelines,         \* the cluster: ingest pipelines
    index              \* the cluster: the index the notebook works on

vars == <<notebook, pc, calls, failedAt, stdout, ELASTIC_CLOUD_ID, ELASTIC_API_KEY,
          API_KEY, client, data_json, documents, response, workplace_docs, content,
          metadata, docs, chunkParent, es, objects, context, endpoints, pipelines, index>>

globalsCohere == <<API_KEY, data_json, documents, response>>
globalsGemma == <<workplace_docs, content, metadata, docs, chunkParent, es, objects, context>>
credentials == <<ELASTIC_CLOUD_ID, ELASTIC_API_KEY, client>>
cluster == <<endpoints, pipelines, index>>

----------------------------------------------------------------------------
(* Bounds and input pools *)

MaxMovies == 2
MaxWorkDocs == 2
MaxHits == 1
MaxFormatDocs == 3

NoValue == "<unset>"

\* what a user may type at a getpass prompt
Secrets == {"secret-1", "secret-2"}

Movies ==
    { [title |-> "Fight Club", plot |-> "An insomniac office worker"],
      [title |-> "Pulp Fiction", plot |-> "The lives of two mob hitmen"] }

\* texts are sequences of characters
Contents == { <<>>, <<"a">>, <<"a", "b">> }

WorkDocs ==
    { [content |-> c, name |-> m[1], summary |-> m[2], rolePermissions |-> m[3],
       url |-> m[4]] :
        c \in Contents,
        m \in { <<"Pet Policy", "pets at work", "demo", "u1">>,
                <<"Sales Goals", "targets", "manager", "u2">> } }

SeqsUpTo(S, n) == UNION { [1..k -> S] : k \in 0..n }

Last(s) == s[Len(s)]

Issued(c) == \E i \in 1..Len(calls) : calls[i] = c

Min(a, b) == IF a <= b THEN a ELSE b

\* the injective sequences of length n over S: the possible rankings of n results
Rankings(S, n) == { r \in [1..n -> S] : \A i, j \in 1..n : i # j => r[i] # r[j] }

----------------------------------------------------------------------------
(* Control flow: the code cells in file order, and an uncaught exception *)

CohereSteps ==
    << "c_credentials", "c_info", "c_put_model", "c_put_pipeline", "c_indices_delete",
       "c_indices_create", "c_urlopen", "c_prepare", "c_bulk", "c_print_done",
       "c_search" >>

GemmaSteps ==
    << "g_credentials", "g_urlopen", "g_collect", "g_create_documents",
       "g_from_documents", "g_login", "g_load_model", "g_load_tokenizer",
       "g_pipeline", "g_chain", "g_invoke" >>

StepsOf(nb) == IF nb = "cohere" THEN CohereSteps ELSE GemmaSteps

PosIn(seq, x) == CHOOSE i \in 1..Len(seq) : seq[i] = x

Successor(seq, s) ==
    IF PosIn(seq, s) = Len(seq) THEN "done" ELSE seq[PosIn(seq, s) + 1]

\* faulty variant: the search cell jumps back to the indexing step
NextStep_LoopBack(s) ==
    IF s = "c_search" THEN "c_bulk"
    ELSE IF s \in { CohereSteps[i] : i \in 1..Len(CohereSteps) }
         THEN Successor(CohereSteps, s) ELSE Successor(GemmaSteps, s)

\* faulty variant: the index is deleted after it was created instead of before
NextStep_DeleteAfterCreate(s) ==
    IF s = "c_put_pipeline" THEN "c_indices_create"
    ELSE IF s = "c_indices_create" THEN "c_indices_delete"
    ELSE IF s = "c_indices_delete" THEN "c_urlopen"
    ELSE IF s \in { CohereSteps[i] : i \in 1..Len(CohereSteps) }
         THEN Successor(CohereSteps, s) ELSE Successor(GemmaSteps, s)

\* the statement that runs after statement s returned
NextStep(s) ==
    IF s \in { CohereSteps[i] : i \in 1..Len(CohereSteps) }
    THEN Successor(CohereSteps, s) ELSE Successor(GemmaSteps, s)

\* faulty variant: the exception is swallowed and the run goes on
AfterFailure_Continue(s) == NextStep(s)

\* no try/except anywhere: the exception ends the run at s
AfterFailure(s) == "failed"

\* the external call a step issues
CallOf(s) ==
    CASE s = "c_info" -> "client.info"
      [] s = "c_put_model" -> "inference.put_model"
      [] s = "c_put_pipeline" -> "ingest.put_pipeline"
      [] s = "c_indices_delete" -> "indices.delete"
      [] s = "c_indices_create" -> "indices.create"
      [] s = "c_urlopen" -> "urlopen"
      [] s = "c_bulk" -> "helpers.bulk"
      [] s = "c_search" -> "client.search"
      [] s = "g_urlopen" -> "urlopen"
      [] s = "g_from_documents" -> "ElasticsearchStore.from_documents"
      [] s = "g_login" -> "notebook_login"
      [] s = "g_load_model" -> "AutoModelForCausalLM.from_pretrained"
      [] s = "g_load_tokenizer" -> "AutoTokenizer.from_pretrained"
      [] s = "g_invoke" -> "chain.invoke"

\* step s issues its call, which returns (ok) or raises
Issue(s, ok) ==
    /\ calls' = Append(calls, CallOf(s))
    /\ pc' = IF ok THEN NextStep(s) ELSE AfterFailure(s)
    /\ failedAt' = IF ok THEN failedAt ELSE s

\* step s makes no external call
Local(s) ==
    /\ pc' = NextStep(s)
    /\ UNCHANGED <<calls, failedAt>>

----------------------------------------------------------------------------
(* The request bodies of the Cohere notebook *)

PutModelRequest ==
    [ task_type |-> "text_embedding", model_id |-> "cohere_embeddings",
      service |-> "cohere", service_model_id |-> "embed-english-v3.0",
      embedding_type |-> "int8" ]

\* faulty variant: the processor names an endpoint that was never created
PutPipelineRequest_OtherModel ==
    [ id |-> "cohere_embeddings", model_id |-> "cohere-embeddings",
      input_field |-> "plot", output_field |-> "plot_embedding" ]

PutPipelineRequest ==
    [ id |-> "cohere_embeddings", model_id |-> "cohere_embeddings",
      input_field |-> "plot", output_field |-> "plot_embedding" ]

\* faulty variant: the index is created without the default pipeline
CreateIndexRequest_NoPipeline ==
    [ index |-> "cohere-movie-embeddings", default_pipeline |-> NoValue,
      vector_field |-> "plot_embedding", type |-> "dense_vector", dims |-> 1024,
      element_type |-> "byte" ]

CreateIndexRequest ==
    [ index |-> "cohere-movie-embeddings", default_pipeline |-> "cohere_embeddings",
      vector_field |-> "plot_embedding", type |-> "dense_vector", dims |-> 1024,
      element_type |-> "byte" ]

\* faulty variant: the query is embedded by another endpoint
SearchRequest_OtherModel ==
    [ index |-> "cohere-movie-embeddings", size |-> 3, field |-> "plot_embedding",
      model_id |-> "cohere_embeddings_v2", model_text |-> "Fighting movie", k |-> 10,
      num_candidates |-> 100 ]

SearchRequest ==
    [ index |-> "cohere-movie-embeddings", size |-> 3, field |-> "plot_embedding",
      model_id |-> "cohere_embeddings", model_text |-> "Fighting movie", k |-> 10,
      num_candidates |-> 100 ]

BulkAction(doc) == [ index |-> "cohere-movie-embeddings", source |-> doc ]

DoneMessage ==
    [ msg |-> "Done indexing documents into cohere-movie-embeddings index!",
      title |-> NoValue, plot |-> NoValue ]

HitLine(hit) == [ msg |-> "hit", title |-> hit.source.title, plot |-> hit.source.plot ]

----------------------------------------------------------------------------
(* The cluster the calls act on *)

NoVector == [ by |-> NoValue, type |-> NoValue, of |-> NoValue ]

AbsentIndex ==
    [ exists |-> FALSE, name |-> NoValue, origin |-> NoValue,
      default_pipeline |-> NoValue, vector_field |-> NoValue,
      element_type |-> NoValue, docs |-> <<>> ]

\* an index left behind by an earlier run of the notebook
StaleIndex(nb) ==
    [ exists |-> TRUE,
      name |-> IF nb = "cohere" THEN "cohere-movie-embeddings" ELSE "gemma-rag",
      origin |-> "earlier run", default_pipeline |-> NoValue,
      vector_field |-> NoValue, element_type |-> NoValue,
      docs |-> IF nb = "cohere"
               THEN << [ source |-> [title |-> "Stale", plot |-> "left over"],
                         vector_field |-> NoValue, vector |-> NoVector ] >>
               ELSE <<>> ]

PipelineOf(idx) == CHOOSE p \in pipelines : p.id = idx.default_pipeline
EndpointOf(id) == CHOOSE e \in endpoints : e.id = id

\* a document can pass the index's default pipeline
CanIngest(idx) ==
    \/ idx.default_pipeline = NoValue
    \/ \E p \in pipelines :
          /\ p.id = idx.default_pipeline
          /\ \E e \in endpoints : e.id = p.model_id

\* the document as stored: the default pipeline's inference processor adds
\* output_field, the embedding of input_field by the endpoint it names
Ingested(idx, src) ==
    IF idx.default_pipeline = NoValue
    THEN [ source |-> src, vector_field |-> NoValue, vector |-> NoVector ]
    ELSE LET p == PipelineOf(idx)
             e == EndpointOf(p.model_id)
         IN  [ source |-> src, vector_field |-> p.output_field,
               vector |-> [ by |-> e.id, type |-> e.embedding_type,
                            of |-> src[p.input_field] ] ]

\* an index created on the fly by the first write to a missing index
AutoCreated(name) ==
    [ AbsentIndex EXCEPT !.exists = TRUE, !.name = name, !.origin = "auto-created" ]

\* the first n sources written to idx
Written(idx, sources, n) ==
    [ idx EXCEPT !.docs = idx.docs \o [ i \in 1..n |-> Ingested(idx, sources[i]) ] ]

----------------------------------------------------------------------------
(* Initial state: nothing has run; the cluster may hold an index of the    *)
(* same name from an earlier run                                           *)

NoClient == [ cloud_id |-> NoValue, api_key |-> NoValue ]
NoResponse == [ query |-> NoVector, field |-> NoValue, hits |-> <<>> ]

Init ==
    /\ notebook \in {"cohere", "gemma"}
    /\ pc = StepsOf(notebook)[1]
    /\ calls = <<>>
    /\ failedAt = NoValue
    /\ stdout = <<>>
    /\ ELASTIC_CLOUD_ID = NoValue
    /\ ELASTIC_API_KEY = NoValue
    /\ API_KEY = NoValue
    /\ client = NoClient
    /\ data_json = <<>>
    /\ documents = <<>>
    /\ response = NoResponse
    /\ workplace_docs = <<>>
    /\ content = <<>>
    /\ metadata = <<>>
    /\ docs = <<>>
    /\ chunkParent = <<>>
    /\ es = NoValue
    /\ objects = {}
    /\ context = <<>>
    /\ endpoints = {}
    /\ pipelines = {}
    /\ index \in {AbsentIndex, StaleIndex(notebook)}

----------------------------------------------------------------------------
(* The Cohere notebook, one action per statement that calls out or builds  *)
(* a global                                                                *)

InfoLine == [ msg |-> "client.info", title |-> NoValue, plot |-> NoValue ]

\* ELASTIC_CLOUD_ID = getpass(..); ELASTIC_API_KEY = getpass(..); client = Elasticsearch(..)
CohereCredentials ==
    /\ notebook = "cohere" /\ pc = "c_credentials"
    /\ \E cid \in Secrets, key \in Secrets :
          /\ ELASTIC_CLOUD_ID' = cid
          /\ ELASTIC_API_KEY' = key
          /\ client' = [ cloud_id |-> cid, api_key |-> key ]
    /\ Local("c_credentials")
    /\ UNCHANGED <<notebook, stdout, globalsCohere, globalsGemma, cluster>>

\* print(client.info())
ClientInfo ==
    /\ notebook = "cohere" /\ pc = "c_info"
    /\ \E ok \in BOOLEAN :
          /\ Issue("c_info", ok)
          /\ stdout' = IF ok THEN Append(stdout, InfoLine) ELSE stdout
    /\ UNCHANGED <<notebook, credentials, globalsCohere, globalsGemma, cluster>>

\* API_KEY = getpass(..); client.inference.put_model(..)
PutModel ==
    /\ notebook = "cohere" /\ pc = "c_put_model"
    /\ \E key \in Secrets, ok \in BOOLEAN :
          /\ API_KEY' = key
          /\ Issue("c_put_model", ok)
          /\ endpoints' =
                IF ok
                THEN { e \in endpoints : e.id # PutModelRequest.model_id }
                     \cup { [ id |-> PutModelRequest.model_id,
                              task_type |-> PutModelRequest.task_type,
                              service |-> PutModelRequest.service,
                              api_key |-> key,
                              service_model_id |-> PutModelRequest.service_model_id,
                              embedding_type |-> PutModelRequest.embedding_type ] }
                ELSE endpoints
    /\ UNCHANGED <<notebook, stdout, credentials, data_json, documents, response,
                   globalsGemma, pipelines, index>>

\* client.ingest.put_pipeline(..)
PutPipeline ==
    /\ notebook = "cohere" /\ pc = "c_put_pipeline"
    /\ \E ok \in BOOLEAN :
          /\ Issue("c_put_pipeline", ok)
          /\ pipelines' =
                IF ok
                THEN { p \in pipelines : p.id # PutPipelineRequest.id }
                     \cup { PutPipelineRequest }
                ELSE pipelines
    /\ UNCHANGED <<notebook, stdout, credentials, globalsCohere, globalsGemma,
                   endpoints, index>>

\* client.indices.delete(index=.., ignore_unavailable=True)
IndicesDelete ==
    /\ notebook = "cohere" /\ pc = "c_indices_delete"
    /\ \E ok \in BOOLEAN :
          /\ Issue("c_indices_delete", ok)
          /\ index' = IF ok THEN AbsentIndex ELSE index
    /\ UNCHANGED <<notebook, stdout, credentials, globalsCohere, globalsGemma,
                   endpoints, pipelines>>

\* client.indices.create(index=.., settings=.., mappings=..): raises when the
\* index exists
IndicesCreate ==
    /\ notebook = "cohere" /\ pc = "c_indices_create"
    /\ \E ok \in BOOLEAN :
          /\ ok => ~index.exists
          /\ Issue("c_indices_create", ok)
          /\ index' =
                IF ok
                THEN [ exists |-> TRUE, name |-> CreateIndexRequest.index,
                       origin |-> "indices.create",
                       default_pipeline |-> CreateIndexRequest.default_pipeline,
                       vector_field |-> CreateIndexRequest.vector_field,
                       element_type |-> CreateIndexRequest.element_type,
                       docs |-> <<>> ]
                ELSE index
    /\ UNCHANGED <<notebook, stdout, credentials, globalsCohere, globalsGemma,
                   endpoints, pipelines>>

\* response = urlopen(url); data_json = json.loads(response.read())
CohereUrlopen ==
    /\ notebook = "cohere" /\ pc = "c_urlopen"
    /\ \E ok \in BOOLEAN, d \in SeqsUpTo(Movies, MaxMovies) :
          /\ Issue("c_urlopen", ok)
          /\ data_json' = IF ok THEN d ELSE data_json
    /\ UNCHANGED <<notebook, stdout, credentials, API_KEY, documents, response,
                   globalsGemma, cluster>>

\* documents = []; for doc in data_json: documents.append({..})
PrepareDocuments ==
    /\ notebook = "cohere" /\ pc = "c_prepare"
    /\ documents' = [ i \in 1..Len(data_json) |-> BulkAction(data_json[i]) ]
    /\ Local("c_prepare")
    /\ UNCHANGED <<notebook, stdout, credentials, API_KEY, data_json, response,
                   globalsGemma, cluster>>

\* helpers.bulk(client, documents): raises on the first failed chunk, after the
\* first n actions were applied
Bulk ==
    /\ notebook = "cohere" /\ pc = "c_bulk"
    /\ LET name == CreateIndexRequest.index
           target == IF index.exists THEN index ELSE AutoCreated(name)
           sources == [ i \in 1..Len(documents) |-> documents[i].source ]
       IN  \E ok \in BOOLEAN, n \in 0..Len(documents) :
              /\ ok => n = Len(documents)
              /\ ~CanIngest(target) => (n = 0 /\ (ok => Len(documents) = 0))
              /\ Issue("c_bulk", ok)
              /\ index' = IF n = 0 THEN index ELSE Written(target, sources, n)
    /\ UNCHANGED <<notebook, stdout, credentials, globalsCohere, globalsGemma,
                   endpoints, pipelines>>

\* print("Done indexing documents ..."); time.sleep(3)
PrintDone ==
    /\ notebook = "cohere" /\ pc = "c_print_done"
    /\ stdout' = Append(stdout, DoneMessage)
    /\ Local("c_print_done")
    /\ UNCHANGED <<notebook, credentials, globalsCohere, globalsGemma, cluster>>

\* response = client.search(..); for hit in response["hits"]["hits"]: print(..)
Search ==
    /\ notebook = "cohere" /\ pc = "c_search"
    /\ LET req == SearchRequest
           candidates == { i \in 1..Len(index.docs) :
                              index.docs[i].vector_field = req.field }
       IN  \E ok \in BOOLEAN :
              /\ ok => index.exists /\ \E e \in endpoints : e.id = req.model_id
              /\ Issue("c_search", ok)
              /\ IF ok
                 THEN \E n \in 0..Min(req.size, Cardinality(candidates)) :
                      \E r \in Rankings(candidates, n) :
                         LET e == EndpointOf(req.model_id)
                             hits == [ i \in 1..n |-> index.docs[r[i]] ]
                         IN  /\ response' =
                                   [ query |-> [ by |-> e.id, type |-> e.embedding_type,
                                                 of |-> req.model_text ],
                                     field |-> req.field, hits |-> hits ]
                             /\ stdout' = stdout \o [ i \in 1..n |-> HitLine(hits[i]) ]
                 ELSE UNCHANGED <<response, stdout>>
    /\ UNCHANGED <<notebook, credentials, API_KEY, data_json, documents,
                   globalsGemma, cluster>>

----------------------------------------------------------------------------
(* The Gemma RAG notebook *)

elastic_index_name == "gemma-rag"

\* faulty variant: the summary is stored under name and the name under summary
MetadataOf_Swapped(doc) ==
    [ name |-> doc.summary, summary |-> doc.name,
      rolePermissions |-> doc.rolePermissions ]

\* the dict the loop appends to metadata for doc
MetadataOf(doc) ==
    [ name |-> doc.name, summary |-> doc.summary,
      rolePermissions |-> doc.rolePermissions ]

\* the pieces a splitter may cut from text: non-empty, contiguous, disjoint and
\* in text order (what lies between two pieces is dropped).  Which of them
\* CharacterTextSplitter(chunk_size=50, chunk_overlap=0) returns is decided by
\* the library, so every such cut is allowed.
Intervals(n) == { iv \in (1..n) \X (1..n) : iv[1] <= iv[2] }

Disjoint(S) == \A x, y \in S : x # y => (x[2] < y[1] \/ y[2] < x[1])

RECURSIVE ByStart(_)
ByStart(S) ==
    IF S = {} THEN <<>>
    ELSE LET first == CHOOSE x \in S : \A y \in S : x[1] <= y[1]
         IN  <<first>> \o ByStart(S \ {first})

split_text(text) ==
    { [ i \in 1..Cardinality(S) |-> SubSeq(text, ByStart(S)[i][1], ByStart(S)[i][2]) ] :
        S \in { T \in SUBSET Intervals(Len(text)) : Disjoint(T) } }

RECURSIVE Flatten(_)
Flatten(ss) == IF ss = <<>> THEN <<>> ELSE Head(ss) \o Flatten(Tail(ss))

\* create_documents(texts, metadatas): for i, text: for chunk in split_text(text):
\* Document(page_content=chunk, metadata=copy(metadatas[i])); cut[i] is the
\* result of split_text(texts[i])
create_documents(texts, metadatas, cut) ==
    Flatten([ i \in 1..Len(texts) |->
                [ j \in 1..Len(cut[i]) |->
                    [ page_content |-> cut[i][j], metadata |-> metadatas[i] ] ] ])

ParentsOf(texts, cut) ==
    Flatten([ i \in 1..Len(texts) |-> [ j \in 1..Len(cut[i]) |-> i ] ])

\* "sep".join(parts)
RECURSIVE join(_, _)
join(sep, parts) ==
    IF parts = <<>> THEN <<>>
    ELSE IF Len(parts) = 1 THEN parts[1]
    ELSE parts[1] \o sep \o join(sep, Tail(parts))

\* faulty variant: the passages are joined by a single newline
format_docs_SingleNewline(ds) ==
    join(<<"\n">>, [ i \in 1..Len(ds) |-> ds[i].page_content ])

format_docs(ds) ==
    join(<<"\n", "\n">>, [ i \in 1..Len(ds) |-> ds[i].page_content ])

RetrieverK == 10

AnswerLine == [ msg |-> "answer", title |-> NoValue, plot |-> NoValue ]

\* ELASTIC_API_KEY = getpass(..); ELASTIC_CLOUD_ID = getpass(..)
GemmaCredentials ==
    /\ notebook = "gemma" /\ pc = "g_credentials"
    /\ \E key \in Secrets, cid \in Secrets :
          /\ ELASTIC_API_KEY' = key
          /\ ELASTIC_CLOUD_ID' = cid
    /\ Local("g_credentials")
    /\ UNCHANGED <<notebook, stdout, client, globalsCohere, globalsGemma, cluster>>

\* response = urlopen(url); workplace_docs = json.loads(response.read())
GemmaUrlopen ==
    /\ notebook = "gemma" /\ pc = "g_urlopen"
    /\ \E ok \in BOOLEAN, d \in SeqsUpTo(WorkDocs, MaxWorkDocs) :
          /\ Issue("g_urlopen", ok)
          /\ workplace_docs' = IF ok THEN d ELSE workplace_docs
    /\ UNCHANGED <<notebook, stdout, credentials, globalsCohere, content, metadata,
                   docs, chunkParent, es, objects, context, cluster>>

\* for doc in workplace_docs: content.append(..); metadata.append({..})
CollectContent ==
    /\ notebook = "gemma" /\ pc = "g_collect"
    /\ content' = [ i \in 1..Len(workplace_docs) |-> workplace_docs[i].content ]
    /\ metadata' = [ i \in 1..Len(workplace_docs) |-> MetadataOf(workplace_docs[i]) ]
    /\ Local("g_collect")
    /\ UNCHANGED <<notebook, stdout, credentials, globalsCohere, workplace_docs,
                   docs, chunkParent, es, objects, context, cluster>>

\* docs = text_splitter.create_documents(content, metadatas=metadata)
CreateDocuments ==
    /\ notebook = "gemma" /\ pc = "g_create_documents"
    /\ \E cut \in { c \in [ 1..Len(content) ->
                            UNION { split_text(content[i]) : i \in 1..Len(content) } ] :
                      \A i \in 1..Len(content) : c[i] \in split_text(content[i]) } :
          /\ docs' = create_documents(content, metadata, cut)
          /\ chunkParent' = ParentsOf(content, cut)
    /\ Local("g_create_documents")
    /\ UNCHANGED <<notebook, stdout, credentials, globalsCohere, workplace_docs,
                   content, metadata, es, objects, context, cluster>>

\* es = ElasticsearchStore.from_documents(docs, .., index_name=elastic_index_name, ..):
\* creates the index when it is missing, then writes the documents to it
FromDocuments ==
    /\ notebook = "gemma" /\ pc = "g_from_documents"
    /\ LET target == IF index.exists THEN index
                     ELSE [ AbsentIndex EXCEPT !.exists = TRUE,
                                               !.name = elastic_index_name,
                                               !.origin = "from_documents" ]
       IN  \E ok \in BOOLEAN, reached \in BOOLEAN, n \in 0..Len(docs) :
              /\ ok => (reached /\ n = Len(docs))
              /\ ~reached => n = 0
              /\ Issue("g_from_documents", ok)
              /\ index' = IF reached THEN Written(target, docs, n) ELSE index
              /\ es' = IF ok THEN elastic_index_name ELSE es
    /\ UNCHANGED <<notebook, stdout, credentials, globalsCohere, workplace_docs,
                   content, metadata, docs, chunkParent, objects, context, endpoints,
                   pipelines>>

\* notebook_login()
HuggingFaceLogin ==
    /\ notebook = "gemma" /\ pc = "g_login"
    /\ \E ok \in BOOLEAN : Issue("g_login", ok)
    /\ UNCHANGED <<notebook, stdout, credentials, globalsCohere, globalsGemma, cluster>>

\* model = AutoModelForCausalLM.from_pretrained("google/gemma-2b-it")
LoadModel ==
    /\ notebook = "gemma" /\ pc = "g_load_model"
    /\ \E ok \in BOOLEAN :
          /\ Issue("g_load_model", ok)
          /\ objects' = IF ok THEN objects \cup {"model"} ELSE objects
    /\ UNCHANGED <<notebook, stdout, credentials, globalsCohere, workplace_docs,
                   content, metadata, docs, chunkParent, es, context, cluster>>

\* tokenizer = AutoTokenizer.from_pretrained("google/gemma-2b-it")
LoadTokenizer ==
    /\ notebook = "gemma" /\ pc = "g_load_tokenizer"
    /\ \E ok \in BOOLEAN :
          /\ Issue("g_load_tokenizer", ok)
          /\ objects' = IF ok THEN objects \cup {"tokenizer"} ELSE objects
    /\ UNCHANGED <<notebook, stdout, credentials, globalsCohere, workplace_docs,
                   content, metadata, docs, chunkParent, es, context, cluster>>

\* pipe = pipeline(..); llm = HuggingFacePipeline(..)
BuildPipeline ==
    /\ notebook = "gemma" /\ pc = "g_pipeline"
    /\ objects' = objects \cup {"pipe", "llm"}
    /\ Local("g_pipeline")
    /\ UNCHANGED <<notebook, stdout, credentials, globalsCohere, workplace_docs,
                   content, metadata, docs, chunkParent, es, context, cluster>>

\* retriever = es.as_retriever(..); prompt = ..; chain = (..)
BuildChain ==
    /\ notebook = "gemma" /\ pc = "g_chain"
    /\ objects' = objects \cup {"retriever", "prompt", "chain"}
    /\ Local("g_chain")
    /\ UNCHANGED <<notebook, stdout, credentials, globalsCohere, workplace_docs,
                   content, metadata, docs, chunkParent, es, context, cluster>>

\* chain.invoke(question): the retriever's passages, formatted by format_docs,
\* fill the prompt the model answers
Invoke ==
    /\ notebook = "gemma" /\ pc = "g_invoke"
    /\ \E ok \in BOOLEAN :
          /\ ok => index.exists
          /\ Issue("g_invoke", ok)
          /\ IF ok
             THEN \E n \in 0..Min(Min(RetrieverK, MaxHits), Len(index.docs)) :
                  \E r \in Rankings(1..Len(index.docs), n) :
                     /\ context' = format_docs([ i \in 1..n |-> index.docs[r[i]].source ])
                     /\ stdout' = Append(stdout, AnswerLine)
             ELSE UNCHANGED <<context, stdout>>
    /\ UNCHANGED <<notebook, credentials, globalsCohere, workplace_docs, content,
                   metadata, docs, chunkParent, es, objects, cluster>>

NextGemma ==
    \/ GemmaCredentials
    \/ GemmaUrlopen
    \/ CollectContent
    \/ CreateDocuments
    \/ FromDocuments
    \/ HuggingFaceLogin
    \/ LoadModel
    \/ LoadTokenizer
    \/ BuildPipeline
    \/ BuildChain
    \/ Invoke

NextCohere ==
    \/ CohereCredentials
    \/ ClientInfo
    \/ PutModel
    \/ PutPipeline
    \/ IndicesDelete
    \/ IndicesCreate
    \/ CohereUrlopen
    \/ PrepareDocuments
    \/ Bulk
    \/ PrintDone
    \/ Search

Next == NextCohere \/ NextGemma

Spec == Init /\ [][Next]_vars

----------------------------------------------------------------------------
(* format_docs on its own: every short list of passages is formatted once *)

FormatContents == { <<>>, <<"a">>, <<"\n", "b">> }

FormatDocs ==
    { [ page_content |-> c, metadata |-> MetadataOf(d) ] :
        c \in FormatContents, d \in WorkDocs }

InitFormat ==
    /\ notebook = "format_docs"
    /\ pc = "f_call"
    /\ calls = <<>>
    /\ failedAt = NoValue
    /\ stdout = <<>>
    /\ ELASTIC_CLOUD_ID = NoValue
    /\ ELASTIC_API_KEY = NoValue
    /\ API_KEY = NoValue
    /\ client = NoClient
    /\ data_json = <<>>
    /\ documents = <<>>
    /\ response = NoResponse
    /\ workplace_docs = <<>>
    /\ content = <<>>
    /\ metadata = <<>>
    /\ docs \in SeqsUpTo(FormatDocs, MaxFormatDocs)
    /\ chunkParent = <<>>
    /\ es = NoValue
    /\ objects = {}
    /\ context = <<>>
    /\ endpoints = {}
    /\ pipelines = {}
    /\ index = AbsentIndex

FormatDocsCall ==
    /\ notebook = "format_docs" /\ pc = "f_call"
    /\ context' = format_docs(docs)
    /\ pc' = "done"
    /\ UNCHANGED <<notebook, calls, failedAt, stdout, credentials, globalsCohere,
                   workplace_docs, content, metadata, docs, chunkParent, es, objects,
                   cluster>>

NextFormat == FormatDocsCall

SpecFormat == InitFormat /\ [][NextFormat]_vars

----------------------------------------------------------------------------
(* Properties *)

IsCutFrom(t, c) == \E a \in 1..(Len(c) + 1), b \in 0..Len(c) : t = SubSeq(c, a, b)

Occurrences(c) == Cardinality({ i \in 1..Len(calls) : calls[i] = c })

\* C1: after the splitting step every chunk of docs belongs to one parent of
\* workplace_docs: its text is cut from that parent's content and its metadata
\* is exactly that parent's name, summary and rolePermissions.
C1_ChunkBelongsToOneParent ==
    /\ Len(chunkParent) = Len(docs)
    /\ \A j \in 1..Len(docs) :
          /\ chunkParent[j] \in 1..Len(workplace_docs)
          /\ LET parent == workplace_docs[chunkParent[j]]
             IN  /\ DOMAIN docs[j].metadata = {"name", "summary", "rolePermissions"}
                 /\ docs[j].metadata.name = parent.name
                 /\ docs[j].metadata.summary = parent.summary
                 /\ docs[j].metadata.rolePermissions = parent.rolePermissions
                 /\ IsCutFrom(docs[j].page_content, parent.content)

\* two parents with different metadata, one of them cut into two chunks
C1_Witness ==
    /\ notebook = "gemma"
    /\ \E i, j, k \in 1..Len(docs) :
          /\ i # j /\ chunkParent[i] = chunkParent[j]
          /\ chunkParent[k] # chunkParent[i]
          /\ docs[k].metadata # docs[i].metadata

\* the calls of the Cohere notebook in the order of their call sites
CohereCallOrder ==
    << "client.info", "inference.put_model", "ingest.put_pipeline", "indices.delete",
       "indices.create", "urlopen", "helpers.bulk", "client.search" >>

\* C3: in a run of the Cohere notebook every external call is issued at most
\* once and in source order: the calls issued so far are strictly increasing
\* in call-site order.
C3_CallsOnceInSourceOrder ==
    notebook = "cohere" =>
        \A i, j \in 1..Len(calls) :
            i < j => PosIn(CohereCallOrder, calls[i]) < PosIn(CohereCallOrder, calls[j])

\* a complete run: all eight calls were issued
C3_Witness ==
    /\ notebook = "cohere" /\ pc = "done"
    /\ calls = CohereCallOrder

\* C4: when an external call raises, the run ends at that step: the failed
\* call is the last call issued and was issued once, no action is enabled any
\* more, and a failed bulk indexing is followed neither by the success message
\* nor by the search (a failed from_documents by neither es nor chain.invoke).
C4_FailureEndsRun ==
    failedAt # NoValue =>
        /\ pc = "failed"
        /\ ~ENABLED Next
        /\ Last(calls) = CallOf(failedAt)
        /\ Occurrences(CallOf(failedAt)) = 1
        /\ failedAt = "c_bulk" =>
              /\ \A i \in 1..Len(stdout) : stdout[i] # DoneMessage
              /\ ~Issued("client.search")
        /\ failedAt = "g_from_documents" =>
              /\ es = NoValue
              /\ ~Issued("chain.invoke")

\* bulk indexing raised after part of the documents was written
C4_Witness ==
    /\ failedAt = "c_bulk"
    /\ Len(documents) > Len(index.docs)
    /\ Len(index.docs) > 0

\* what a call does to the index or its documents
StoreOp(c) ==
    CASE c = "indices.delete" -> "delete"
      [] c = "indices.create" -> "create"
      [] c = "helpers.bulk" -> "write"
      [] c = "ElasticsearchStore.from_documents" -> "write"
      [] OTHER -> "none"

\* C5 as stated: no step issues an update or a delete against the store.
C5_NoUpdateNoDelete ==
    \A i \in 1..Len(calls) : StoreOp(calls[i]) \notin {"update", "delete"}

\* C5 amended: no update is issued, and the only delete is the single
\* indices.delete of the Cohere notebook, issued before the index is created
\* and before anything is written to it.
C5_OnlyDeleteBeforeCreate ==
    /\ \A i \in 1..Len(calls) :
          /\ StoreOp(calls[i]) # "update"
          /\ StoreOp(calls[i]) = "delete" =>
                /\ notebook = "cohere"
                /\ calls[i] = "indices.delete"
                /\ \A j \in 1..Len(calls) :
                      StoreOp(calls[j]) \in {"create", "write"} => i < j
    /\ Occurrences("indices.delete") <= 1

\* a complete Cohere run over an index left by an earlier run: deleted,
\* created, written
C5_Witness ==
    /\ notebook = "cohere" /\ pc = "done"
    /\ Issued("indices.delete")
    /\ index.origin = "indices.create"
    /\ Len(index.docs) > 0

\* C6 as stated: after the prompt step no program variable holds a credential
\* read with getpass.
C6_CredentialsNotInMemory ==
    notebook = "cohere" =>
        /\ ELASTIC_CLOUD_ID = NoValue
        /\ ELASTIC_API_KEY = NoValue
        /\ API_KEY = NoValue
        /\ client = NoClient

\* C7: when client.search is issued every document of the downloaded dataset
\* is in cohere-movie-embeddings and carries a plot_embedding computed from
\* its plot by the cohere_embeddings endpoint.
C7_SearchAfterEnrichment ==
    Issued("client.search") =>
        /\ index.exists /\ index.name = "cohere-movie-embeddings"
        /\ \A i \in 1..Len(data_json) :
              \E j \in 1..Len(index.docs) :
                 /\ index.docs[j].source = data_json[i]
                 /\ index.docs[j].vector_field = "plot_embedding"
                 /\ index.docs[j].vector.by = "cohere_embeddings"
                 /\ index.docs[j].vector.of = data_json[i].plot

\* the search was issued over a dataset of two different movies
C7_Witness ==
    /\ Issued("client.search")
    /\ Len(data_json) >= 2
    /\ data_json[1] # data_json[2]

\* C8: when the search is issued, the endpoint it names exists and is the one
\* the index's default pipeline embeds with; the pipeline's output field, the
\* index's dense_vector field and the kNN field are the same; the endpoint's
\* int8 embeddings meet a byte mapping; every stored and every query embedding
\* is by that endpoint.
C8_NamesAgree ==
    Issued("client.search") =>
        /\ \E e \in endpoints :
              /\ e.id = SearchRequest.model_id
              /\ e.embedding_type = "int8"
        /\ index.element_type = "byte"
        /\ \E p \in pipelines :
              /\ p.id = index.default_pipeline
              /\ p.model_id = SearchRequest.model_id
              /\ p.output_field = index.vector_field
        /\ index.vector_field = SearchRequest.field
        /\ \A j \in 1..Len(index.docs) :
              /\ index.docs[j].vector_field = SearchRequest.field
              /\ index.docs[j].vector.by = SearchRequest.model_id
        /\ failedAt = NoValue =>
              /\ response.query.by = SearchRequest.model_id
              /\ response.field = index.vector_field

\* the search returned hits
C8_Witness ==
    /\ notebook = "cohere" /\ pc = "done"
    /\ Len(response.hits) > 0

\* C9: the endpoint exists when the pipeline naming it is put, the pipeline
\* exists when the index naming it is created, and the index created by
\* indices.create exists when helpers.bulk targets it.
C9_ResourcesExistBeforeUse ==
    /\ Issued("ingest.put_pipeline") =>
          \E e \in endpoints : e.id = PutPipelineRequest.model_id
    /\ Issued("indices.create") =>
          \E p \in pipelines : p.id = CreateIndexRequest.default_pipeline
    /\ Issued("helpers.bulk") =>
          /\ index.exists
          /\ index.origin = "indices.create"
          /\ \A i \in 1..Len(documents) : documents[i].index = index.name

\* the bulk call was issued and wrote documents
C9_Witness ==
    /\ Issued("helpers.bulk")
    /\ Len(index.docs) > 0

\* where the i-th passage starts in the text format_docs returns
RECURSIVE Offset(_, _)
Offset(ds, i) ==
    IF i = 1 THEN 0 ELSE Offset(ds, i - 1) + Len(ds[i - 1].page_content) + 2

\* C10: format_docs returns the page_content of the documents, in order,
\* joined by exactly one blank line: nothing for the empty list, the content
\* unchanged for one document, n-1 separators for n, and nothing else.
C10_FormatDocsJoins ==
    (notebook = "format_docs" /\ pc = "done") =>
        LET n == Len(docs)
        IN  /\ n = 0 => context = <<>>
            /\ n = 1 => context = docs[1].page_content
            /\ n >= 1 =>
                  Len(context) = Offset(docs, n) + Len(docs[n].page_content)
            /\ \A i \in 1..n :
                  SubSeq(context, Offset(docs, i) + 1,
                         Offset(docs, i) + Len(docs[i].page_content))
                     = docs[i].page_content
            /\ \A i \in 1..(n - 1) :
                  SubSeq(context, Offset(docs, i + 1) - 1, Offset(docs, i + 1))
                     = <<"\n", "\n">>

\* three passages, the middle one empty, were formatted
C10_Witness ==
    /\ notebook = "format_docs" /\ pc = "done"
    /\ Len(docs) = 3
    /\ docs[2].page_content = <<>>
    /\ docs[1].page_content # <<>>
    /\ docs[1].metadata # docs[3].metadata

====
